---- MODULE Spec2Model ----
(***************************************************************************)
(* AutoPrintReceipt: a kiosk page that reads ?data=<base64 json>, renders  *)
(* a receipt, exports it to an 80 x 120 mm PDF and prints it.              *)
(*                                                                         *)
(* Strings are sequences of Unicode code points.  Functions that can throw *)
(* return [ok |-> BOOLEAN, v |-> value].                                   *)
(***************************************************************************)
EXTENDS Integers, Sequences, FiniteSets, TLC

----------------------------------------------------------------------------
(* Characters *)

Lower == <<"a","b","c","d","e","f","g","h","i","j","k","l","m",
           "n","o","p","q","r","s","t","u","v","w","x","y","z">>
Upper == <<"A","B","C","D","E","F","G","H","I","J","K","L","M",
           "N","O","P","Q","R","S","T","U","V","W","X","Y","Z">>
Digit == <<"0","1","2","3","4","5","6","7","8","9">>

\* code point of a one-character string
Ord(c) ==
  IF \E i \in 1..26 : Lower[i] = c THEN 96 + (CHOOSE i \in 1..26 : Lower[i] = c)
  ELSE IF \E i \in 1..26 : Upper[i] = c THEN 64 + (CHOOSE i \in 1..26 : Upper[i] = c)
  ELSE IF \E i \in 1..10 : Digit[i] = c THEN 47 + (CHOOSE i \in 1..10 : Digit[i] = c)
  ELSE CASE c = " " -> 32 [] c = "!" -> 33 [] c = "%" -> 37 [] c = "+" -> 43
         [] c = "," -> 44 [] c = "-" -> 45 [] c = "." -> 46 [] c = "/" -> 47
         [] c = ":" -> 58 [] c = "=" -> 61 [] c = "[" -> 91 [] c = "]" -> 93
         [] c = "_" -> 95 [] c = "{" -> 123 [] c = "}" -> 125 [] c = "~" -> 126
         [] c = "\"" -> 34 [] c = "\\" -> 92 [] c = "\t" -> 9 [] c = "\n" -> 10
         [] c = "\f" -> 12 [] c = "\r" -> 13

\* the string spelled by a tuple of one-character strings
S(q) == [i \in 1..Len(q) |-> Ord(q[i])]

Quote == Ord("\"")
Backslash == Ord("\\")
\* U+FFFD
Replacement == 65533

Ok(v) == [ok |-> TRUE, v |-> v]

\* the least position of the set c, or dflt if there is none
First(c, dflt) == IF c = {} THEN dflt ELSE CHOOSE j \in c : \A k \in c : j <= k
\* s from position i on
From(s, i) == SubSeq(s, i, Len(s))
Throw == [ok |-> FALSE, v |-> <<>>]

IsHex(c) == (c >= 48 /\ c <= 57) \/ (c >= 65 /\ c <= 70) \/ (c >= 97 /\ c <= 102)
HexVal(c) == IF c <= 57 THEN c - 48 ELSE IF c <= 70 THEN c - 55 ELSE c - 87
HexDigit(n) == IF n < 10 THEN 48 + n ELSE 55 + n

\* s has an escape %XX at position i
EscapeAt(s, i) == i + 2 <= Len(s) /\ s[i] = 37 /\ IsHex(s[i+1]) /\ IsHex(s[i+2])
EscapeVal(s, i) == 16 * HexVal(s[i+1]) + HexVal(s[i+2])

----------------------------------------------------------------------------
(* UTF-8 *)

Utf8Char(cp) ==
  IF cp < 128 THEN <<cp>>
  ELSE IF cp < 2048 THEN <<192 + (cp \div 64), 128 + (cp % 64)>>
  ELSE IF cp < 65536
    THEN <<224 + (cp \div 4096), 128 + ((cp \div 64) % 64), 128 + (cp % 64)>>
  ELSE <<240 + (cp \div 262144), 128 + ((cp \div 4096) % 64),
         128 + ((cp \div 64) % 64), 128 + (cp % 64)>>

RECURSIVE Utf8Encode(_)
Utf8Encode(s) ==
  LET j == First({i \in 1..Len(s) : s[i] >= 128}, Len(s) + 1)
  IN IF j > Len(s) THEN s
     ELSE SubSeq(s, 1, j - 1) \o Utf8Char(s[j]) \o Utf8Encode(From(s, j + 1))

\* number of continuation bytes announced by a lead byte, -1 if it is no lead byte
Utf8Follow(b) ==
  IF b < 128 THEN 0
  ELSE IF b >= 194 /\ b <= 223 THEN 1
  ELSE IF b >= 224 /\ b <= 239 THEN 2
  ELSE IF b >= 240 /\ b <= 244 THEN 3
  ELSE -1

Utf8LeadBits(b) ==
  IF b < 128 THEN b ELSE IF b <= 223 THEN b - 192 ELSE IF b <= 239 THEN b - 224 ELSE b - 240

Utf8MinCp(n) == IF n = 0 THEN 0 ELSE IF n = 1 THEN 128 ELSE IF n = 2 THEN 2048 ELSE 65536

IsCont(b) == b >= 128 /\ b <= 191

RECURSIVE Utf8Acc(_, _, _, _)
Utf8Acc(bytes, i, n, acc) ==
  IF n = 0 THEN acc ELSE Utf8Acc(bytes, i + 1, n - 1, acc * 64 + (bytes[i] - 128))

\* the well-formed character starting at byte i, if there is one
Utf8At(bytes, i) ==
  LET n == Utf8Follow(bytes[i])
      good == n >= 0 /\ i + n <= Len(bytes)
              /\ \A k \in 1..n : IsCont(bytes[i+k])
      cp == Utf8Acc(bytes, i + 1, n, Utf8LeadBits(bytes[i]))
  IN IF good /\ cp >= Utf8MinCp(n) /\ cp <= 1114111 /\ ~(cp >= 55296 /\ cp <= 57343)
       THEN [ok |-> TRUE, cp |-> cp, next |-> i + n + 1]
       ELSE [ok |-> FALSE, cp |-> Replacement, next |-> i + 1]

RECURSIVE Utf8DecodeLossy(_, _)
\* malformed bytes become U+FFFD
Utf8DecodeLossy(bytes, i) ==
  LET j == First({k \in i..Len(bytes) : bytes[k] >= 128}, Len(bytes) + 1)
  IN IF j > Len(bytes) THEN From(bytes, i)
     ELSE LET c == Utf8At(bytes, j)
          IN SubSeq(bytes, i, j - 1) \o <<c.cp>> \o Utf8DecodeLossy(bytes, c.next)

----------------------------------------------------------------------------
(* URLSearchParams.get("data"): application/x-www-form-urlencoded parsing *)
(* of the parameter's raw value (a value without & or #).                 *)

RECURSIVE FormBytes(_, _)
FormBytes(s, i) ==
  LET j == First({k \in i..Len(s) : s[k] = Ord("+") \/ EscapeAt(s, k) \/ s[k] >= 128}, Len(s) + 1)
      plain == SubSeq(s, i, j - 1)
  IN IF j > Len(s) THEN plain
     ELSE IF s[j] = Ord("+") THEN plain \o <<32>> \o FormBytes(s, j + 1)
     ELSE IF EscapeAt(s, j) THEN plain \o <<EscapeVal(s, j)>> \o FormBytes(s, j + 3)
     ELSE plain \o Utf8Char(s[j]) \o FormBytes(s, j + 1)

URLSearchParamsGet(raw) == Utf8DecodeLossy(FormBytes(raw, 1), 1)

----------------------------------------------------------------------------
(* decodeURIComponent *)

RECURSIVE DecodeURIFrom(_, _)
DecodeURIFrom(s, i0) ==
  LET i == First({k \in i0..Len(s) : s[k] = Ord("%")}, Len(s) + 1)
      plain == SubSeq(s, i0, i - 1)
  IN IF i > Len(s) THEN Ok(plain)
     ELSE IF ~EscapeAt(s, i) THEN Throw
     ELSE LET b == EscapeVal(s, i)
              n == Utf8Follow(b)
          IN IF n < 0 \/ ~(\A k \in 1..n : EscapeAt(s, i + 3 * k)) THEN Throw
             ELSE LET bytes == [k \in 1..(n + 1) |-> EscapeVal(s, i + 3 * (k - 1))]
                      c == Utf8At(bytes, 1)
                      rest == DecodeURIFrom(s, i + 3 * (n + 1))
                  IN IF c.ok /\ rest.ok THEN Ok(plain \o <<c.cp>> \o rest.v) ELSE Throw

decodeURIComponent(s) == DecodeURIFrom(s, 1)

----------------------------------------------------------------------------
(* Base64 *)

B64Std(n) ==
  IF n < 26 THEN 65 + n
  ELSE IF n < 52 THEN 97 + (n - 26)
  ELSE IF n < 62 THEN 48 + (n - 52)
  ELSE IF n = 62 THEN Ord("+") ELSE Ord("/")

IsB64(c) ==
  \/ c >= 65 /\ c <= 90
  \/ c >= 97 /\ c <= 122
  \/ c >= 48 /\ c <= 57
  \/ c = Ord("+")
  \/ c = Ord("/")

B64Val(c) ==
  IF c >= 65 /\ c <= 90 THEN c - 65
  ELSE IF c >= 97 /\ c <= 122 THEN c - 97 + 26
  ELSE IF c >= 48 /\ c <= 57 THEN c - 48 + 52
  ELSE IF c = Ord("+") THEN 62 ELSE 63

IsAsciiSpace(c) == c \in {9, 10, 12, 13, 32}

RECURSIVE StripAsciiSpace(_)
StripAsciiSpace(s) ==
  LET j == First({i \in 1..Len(s) : IsAsciiSpace(s[i])}, Len(s) + 1)
  IN IF j > Len(s) THEN s ELSE SubSeq(s, 1, j - 1) \o StripAsciiSpace(From(s, j + 1))

\* the bytes of 6-bit groups g (Len(g) % 4 # 1), leftover bits discarded
B64Bytes(g) ==
  LET n == 3 * (Len(g) \div 4) + (IF Len(g) % 4 = 0 THEN 0 ELSE (Len(g) % 4) - 1)
  IN [k \in 1..n |->
       LET q == 4 * ((k - 1) \div 3)
       IN CASE (k - 1) % 3 = 0 -> g[q+1] * 4 + (g[q+2] \div 16)
            [] (k - 1) % 3 = 1 -> (g[q+2] % 16) * 16 + (g[q+3] \div 4)
            [] (k - 1) % 3 = 2 -> (g[q+3] % 4) * 64 + g[q+4]]

\* window.atob: forgiving-base64 decode; the result is a string of bytes
atob(s) ==
  LET a == StripAsciiSpace(s)
      n == Len(a)
      pad == IF n % 4 = 0 /\ n > 0 /\ a[n] = Ord("=")
               THEN (IF a[n-1] = Ord("=") THEN 2 ELSE 1) ELSE 0
      b == SubSeq(a, 1, n - pad)
  IN IF Len(b) % 4 = 1 \/ \E i \in 1..Len(b) : ~IsB64(b[i]) THEN Throw
     ELSE Ok(B64Bytes([i \in 1..Len(b) |-> B64Val(b[i])]))

----------------------------------------------------------------------------
(* JavaScript values.  Every value is a record [t, a, m]: t the type, a the *)
(* characters of a string or the one number of a number or boolean, m the   *)
(* entries [k, v] of an object (k the key) or of an array (k empty).        *)

JNull == [t |-> "null", a |-> <<>>, m |-> <<>>]
Undefined == [t |-> "undefined", a |-> <<>>, m |-> <<>>]
JBool(b) == [t |-> "bool", a |-> <<IF b THEN 1 ELSE 0>>, m |-> <<>>]
JNum(n) == [t |-> "num", a |-> <<n>>, m |-> <<>>]
JStr(s) == [t |-> "str", a |-> s, m |-> <<>>]
JArr(items) == [t |-> "arr", a |-> <<>>, m |-> [i \in 1..Len(items) |-> [k |-> <<>>, v |-> items[i]]]]
JObj(entries) == [t |-> "obj", a |-> <<>>, m |-> entries]
KV(k, v) == [k |-> k, v |-> v]

\* ToBoolean
Truthy(x) ==
  CASE x.t \in {"null", "undefined"} -> FALSE
    [] x.t \in {"bool", "num"} -> x.a[1] # 0
    [] x.t = "str" -> x.a # <<>>
    [] OTHER -> TRUE

\* obj[k] = v as JSON.parse defines a member: a repeated key keeps its place
PutMember(m, k, v) ==
  IF \E i \in 1..Len(m) : m[i].k = k
    THEN [i \in 1..Len(m) |-> IF m[i].k = k THEN KV(k, v) ELSE m[i]]
    ELSE Append(m, KV(k, v))

----------------------------------------------------------------------------
(* JSON.parse, on texts whose numbers are integers *)

IsJsonSpace(c) == c \in {9, 10, 13, 32}
IsDigit(c) == c >= 48 /\ c <= 57

RECURSIVE SkipWs(_, _)
SkipWs(s, i) == IF i <= Len(s) /\ IsJsonSpace(s[i]) THEN SkipWs(s, i + 1) ELSE i

Parsed(v, next) == [ok |-> TRUE, v |-> v, next |-> next]
SyntaxError == [ok |-> FALSE, v |-> Undefined, next |-> 0]

HasAt(s, i, w) == i + Len(w) - 1 <= Len(s) /\ SubSeq(s, i, i + Len(w) - 1) = w

SimpleEscape(c) ==
  CASE c = Ord("b") -> 8 [] c = Ord("f") -> 12 [] c = Ord("n") -> 10
    [] c = Ord("r") -> 13 [] c = Ord("t") -> 9 [] OTHER -> c

\* the characters of a string literal from position j on, up to its closing quote
RECURSIVE ParseChars(_, _)
ParseChars(s, j0) ==
  LET j == First({k \in j0..Len(s) : s[k] \in {Quote, Backslash} \/ s[k] < 32}, Len(s) + 1)
      plain == SubSeq(s, j0, j - 1)
  IN IF j > Len(s) \/ s[j] < 32 THEN [ok |-> FALSE, v |-> <<>>, next |-> 0]
     ELSE IF s[j] = Quote THEN [ok |-> TRUE, v |-> plain, next |-> j + 1]
     ELSE IF j + 1 > Len(s) THEN [ok |-> FALSE, v |-> <<>>, next |-> 0]
     ELSE IF s[j+1] \in {Quote, Backslash, Ord("/"), Ord("b"), Ord("f"), Ord("n"), Ord("r"), Ord("t")}
       THEN LET rest == ParseChars(s, j + 2)
            IN [ok |-> rest.ok, v |-> plain \o <<SimpleEscape(s[j+1])>> \o rest.v, next |-> rest.next]
     ELSE IF s[j+1] = Ord("u") /\ j + 5 <= Len(s) /\ \A k \in 2..5 : IsHex(s[j+k])
       THEN LET rest == ParseChars(s, j + 6)
                u == 4096 * HexVal(s[j+2]) + 256 * HexVal(s[j+3]) + 16 * HexVal(s[j+4]) + HexVal(s[j+5])
            IN [ok |-> rest.ok, v |-> plain \o <<u>> \o rest.v, next |-> rest.next]
     ELSE [ok |-> FALSE, v |-> <<>>, next |-> 0]

RECURSIVE ParseDigits(_, _, _)
ParseDigits(s, i, acc) ==
  IF i <= Len(s) /\ IsDigit(s[i]) THEN ParseDigits(s, i + 1, 10 * acc + (s[i] - 48))
  ELSE [v |-> acc, next |-> i]

\* an integer literal at i (s[i] a digit): no leading zero
ParseInt(s, i, sign) ==
  IF s[i] = 48 THEN Parsed(JNum(0), i + 1)
  ELSE LET d == ParseDigits(s, i, 0) IN Parsed(JNum(sign * d.v), d.next)

StringValue(c) == IF c.ok THEN Parsed(JStr(c.v), c.next) ELSE SyntaxError

RECURSIVE ParseValue(_, _), ValueAt(_, _), ArrayAt(_, _), ObjectAt(_, _)
RECURSIVE ParseElements(_, _, _), ElementAfter(_, _, _), ElementsNext(_, _, _)
RECURSIVE ParseMembers(_, _, _), MemberKey(_, _, _), MemberColon(_, _, _, _)
RECURSIVE MemberAfter(_, _, _, _), MembersNext(_, _, _)

\* the value that starts at position i of s, after white space
ParseValue(s, i) == ValueAt(s, SkipWs(s, i))

ValueAt(s, i) ==
  IF i > Len(s) THEN SyntaxError
  ELSE IF HasAt(s, i, S(<<"n","u","l","l">>)) THEN Parsed(JNull, i + 4)
  ELSE IF HasAt(s, i, S(<<"t","r","u","e">>)) THEN Parsed(JBool(TRUE), i + 4)
  ELSE IF HasAt(s, i, S(<<"f","a","l","s","e">>)) THEN Parsed(JBool(FALSE), i + 5)
  ELSE IF IsDigit(s[i]) THEN ParseInt(s, i, 1)
  ELSE IF s[i] = Ord("-") /\ i + 1 <= Len(s) /\ IsDigit(s[i+1]) THEN ParseInt(s, i + 1, -1)
  ELSE IF s[i] = Quote THEN StringValue(ParseChars(s, i + 1))
  ELSE IF s[i] = Ord("[") THEN ArrayAt(s, SkipWs(s, i + 1))
  ELSE IF s[i] = Ord("{") THEN ObjectAt(s, SkipWs(s, i + 1))
  ELSE SyntaxError

\* after [
ArrayAt(s, j) ==
  IF j <= Len(s) /\ s[j] = Ord("]") THEN Parsed(JArr(<<>>), j + 1) ELSE ParseElements(s, j, <<>>)

\* after {
ObjectAt(s, j) ==
  IF j <= Len(s) /\ s[j] = Ord("}") THEN Parsed(JObj(<<>>), j + 1) ELSE ParseMembers(s, j, <<>>)

\* the elements of an array from position i on, after the elements acc
ParseElements(s, i, acc) == ElementAfter(s, acc, ParseValue(s, i))

ElementAfter(s, acc, e) ==
  IF e.ok THEN ElementsNext(s, Append(acc, e.v), SkipWs(s, e.next)) ELSE SyntaxError

ElementsNext(s, acc, j) ==
  IF j > Len(s) THEN SyntaxError
  ELSE IF s[j] = Ord("]") THEN Parsed(JArr(acc), j + 1)
  ELSE IF s[j] = Ord(",") THEN ParseElements(s, j + 1, acc)
  ELSE SyntaxError

\* the members of an object from position i on, after the members acc
ParseMembers(s, i, acc) == MemberKey(s, acc, SkipWs(s, i))

MemberKey(s, acc, i) ==
  IF i <= Len(s) /\ s[i] = Quote THEN MemberColon(s, acc, ParseChars(s, i + 1), 0) ELSE SyntaxError

\* after the key: the colon at position c (0: not looked for yet) and the value
MemberColon(s, acc, key, c) ==
  IF ~key.ok THEN SyntaxError
  ELSE IF c = 0 THEN MemberColon(s, acc, key, SkipWs(s, key.next))
  ELSE IF c > Len(s) \/ s[c] # Ord(":") THEN SyntaxError
  ELSE MemberAfter(s, acc, key.v, ParseValue(s, c + 1))

MemberAfter(s, acc, k, e) ==
  IF e.ok THEN MembersNext(s, PutMember(acc, k, e.v), SkipWs(s, e.next)) ELSE SyntaxError

MembersNext(s, acc, j) ==
  IF j > Len(s) THEN SyntaxError
  ELSE IF s[j] = Ord("}") THEN Parsed(JObj(acc), j + 1)
  ELSE IF s[j] = Ord(",") THEN ParseMembers(s, j + 1, acc)
  ELSE SyntaxError

\* the whole text is one value
WholeText(text, r) ==
  IF r.ok /\ SkipWs(text, r.next) > Len(text) THEN [ok |-> TRUE, v |-> r.v]
  ELSE [ok |-> FALSE, v |-> Undefined]

JSONparse(text) == WholeText(text, ParseValue(text, 1))

----------------------------------------------------------------------------
(* The producer of the URL (section 6 of the specification): UTF-8 JSON,  *)
(* URL-safe Base64, percent-encoding.                                      *)

RECURSIVE Decimal(_)
Decimal(n) == IF n < 10 THEN <<48 + n>> ELSE Decimal(n \div 10) \o <<48 + (n % 10)>>

RECURSIVE EscapeChars(_)
EscapeChars(s) ==
  LET j == First({i \in 1..Len(s) : s[i] \in {Quote, Backslash}}, Len(s) + 1)
  IN IF j > Len(s) THEN s
     ELSE SubSeq(s, 1, j - 1) \o <<Backslash, s[j]>> \o EscapeChars(From(s, j + 1))

Quoted(s) == <<Quote>> \o EscapeChars(s) \o <<Quote>>

RECURSIVE JSONstringify(_), StringifyEntries(_, _)
JSONstringify(x) ==
  CASE x.t = "null" -> S(<<"n","u","l","l">>)
    [] x.t = "bool" -> IF x.a[1] = 1 THEN S(<<"t","r","u","e">>) ELSE S(<<"f","a","l","s","e">>)
    [] x.t = "num" -> IF x.a[1] < 0 THEN <<Ord("-")>> \o Decimal(-x.a[1]) ELSE Decimal(x.a[1])
    [] x.t = "str" -> Quoted(x.a)
    [] x.t = "arr" -> <<Ord("[")>> \o StringifyEntries(x.m, FALSE) \o <<Ord("]")>>
    [] x.t = "obj" -> <<Ord("{")>> \o StringifyEntries(x.m, TRUE) \o <<Ord("}")>>

StringifyEntries(m, keyed) ==
  IF m = <<>> THEN <<>>
  ELSE (IF keyed THEN Quoted(m[1].k) \o <<Ord(":")>> ELSE <<>>)
       \o JSONstringify(m[1].v)
       \o (IF Len(m) > 1 THEN <<Ord(",")>> ELSE <<>>)
       \o StringifyEntries(Tail(m), keyed)

\* standard Base64 with padding
B64Encode(b) ==
  LET at(i) == IF i <= Len(b) THEN b[i] ELSE 0
  IN [k \in 1..(4 * ((Len(b) + 2) \div 3)) |->
       LET q == 3 * ((k - 1) \div 4)
       IN CASE (k - 1) % 4 = 0 -> B64Std(at(q+1) \div 4)
            [] (k - 1) % 4 = 1 -> B64Std((at(q+1) % 4) * 16 + (at(q+2) \div 16))
            [] (k - 1) % 4 = 2 -> IF q + 2 > Len(b) THEN Ord("=")
                                  ELSE B64Std((at(q+2) % 16) * 4 + (at(q+3) \div 64))
            [] (k - 1) % 4 = 3 -> IF q + 3 > Len(b) THEN Ord("=") ELSE B64Std(at(q+3) % 64)]

UrlSafe(s) ==
  [i \in 1..Len(s) |-> IF s[i] = Ord("+") THEN Ord("-") ELSE IF s[i] = Ord("/") THEN Ord("_") ELSE s[i]]

IsUnreserved(c) ==
  \/ c >= 65 /\ c <= 90
  \/ c >= 97 /\ c <= 122
  \/ c >= 48 /\ c <= 57
  \/ c \in {Ord("-"), Ord("_"), Ord("."), Ord("~")}

RECURSIVE PercentEncode(_)
PercentEncode(bytes) ==
  LET j == First({i \in 1..Len(bytes) : ~IsUnreserved(bytes[i])}, Len(bytes) + 1)
  IN IF j > Len(bytes) THEN bytes
     ELSE SubSeq(bytes, 1, j - 1)
          \o <<Ord("%"), HexDigit(bytes[j] \div 16), HexDigit(bytes[j] % 16)>>
          \o PercentEncode(From(bytes, j + 1))

\* the text of a JSON document as it travels in the data parameter
EncodeText(text) == PercentEncode(UrlSafe(B64Encode(Utf8Encode(text))))
EncodeData(x) == EncodeText(JSONstringify(x))

----------------------------------------------------------------------------
(* decodeBase64UrlSafe *)

\* .replace(/-/g, "+").replace(/_/g, "/")
FixAlphabet(s) ==
  [i \in 1..Len(s) |-> IF s[i] = Ord("-") THEN Ord("+") ELSE IF s[i] = Ord("_") THEN Ord("/") ELSE s[i]]

\* return atob(fixed), decoded the result of decodeURIComponent(s)
AtobFixed(decoded) == IF decoded.ok THEN atob(FixAlphabet(decoded.v)) ELSE Throw

\* the try block
FirstAttempt(s) == AtobFixed(decodeURIComponent(s))

\* the catch block: try { return atob(s) } catch (e2) { throw e }
SecondAttempt(s, first) == IF first.ok THEN first ELSE atob(s)

decodeBase64UrlSafe(s) == SecondAttempt(s, FirstAttempt(s))

----------------------------------------------------------------------------
(* The receipt body *)

k_problem == S(<<"p","r","o","b","l","e","m">>)
k_advisory == S(<<"a","d","v","i","s","o","r","y">>)
k_components == S(<<"c","o","m","p","o","n","e","n","t","s">>)
k_receipt_id == S(<<"r","e","c","e","i","p","t","_","i","d">>)
k_generated_at == S(<<"g","e","n","e","r","a","t","e","d","_","a","t">>)
k_problem_name_te == S(<<"p","r","o","b","l","e","m","_","n","a","m","e","_","t","e">>)
k_problem_name_en == S(<<"p","r","o","b","l","e","m","_","n","a","m","e","_","e","n">>)
k_category == S(<<"c","a","t","e","g","o","r","y">>)
k_stage_te == S(<<"s","t","a","g","e","_","t","e">>)
k_stage_en == S(<<"s","t","a","g","e","_","e","n">>)
k_symptoms_te == S(<<"s","y","m","p","t","o","m","s","_","t","e">>)
k_notes_te == S(<<"n","o","t","e","s","_","t","e">>)
k_component_type == S(<<"c","o","m","p","o","n","e","n","t","_","t","y","p","e">>)
k_component_name_te == S(<<"c","o","m","p","o","n","e","n","t","_","n","a","m","e","_","t","e">>)
k_component_name_en == S(<<"c","o","m","p","o","n","e","n","t","_","n","a","m","e","_","e","n">>)
k_dose_te == S(<<"d","o","s","e","_","t","e">>)
k_application_method_te ==
  S(<<"a","p","p","l","i","c","a","t","i","o","n","_","m","e","t","h","o","d","_","t","e">>)
k_length == S(<<"l","e","n","g","t","h">>)

Advisory == JStr(S(<<"A","d","v","i","s","o","r","y">>))
Dash == JStr(S(<<"-">>))

\* x.k where x is neither null nor undefined (there the access throws)
Prop(x, k) ==
  IF x.t = "obj" /\ \E i \in 1..Len(x.m) : x.m[i].k = k
    THEN x.m[CHOOSE i \in 1..Len(x.m) : x.m[i].k = k].v
  ELSE IF x.t = "arr" /\ k = k_length THEN JNum(Len(x.m))
  ELSE IF x.t = "str" /\ k = k_length THEN JNum(Len(x.a))
  ELSE Undefined

Nullish(x) == x.t \in {"null", "undefined"}

\* const { k = dflt } = payload
Destructure(x, k, dflt) == IF Prop(x, k) = Undefined THEN dflt ELSE Prop(x, k)

\* a || b
Or(a, b) == IF Truthy(a) THEN a ELSE b

\* React refuses an object as a child ("Objects are not valid as a React child")
RECURSIVE ChildFaults(_)
ChildFaults(x) ==
  \/ x.t = "obj"
  \/ x.t = "arr" /\ \E i \in 1..Len(x.m) : ChildFaults(x.m[i].v)

\* the text React shows for a child that does not fault
RECURSIVE ChildText(_)
ChildText(x) ==
  CASE x.t = "str" -> x.a
    [] x.t = "num" -> IF x.a[1] < 0 THEN <<Ord("-")>> \o Decimal(-x.a[1]) ELSE Decimal(x.a[1])
    [] x.t = "arr" -> IF x.m = <<>> THEN <<>>
                      ELSE ChildText(x.m[1].v) \o ChildText([x EXCEPT !.m = Tail(x.m)])
    [] OTHER -> <<>>

\* {x && (<>heading, x</>)}: the heading and the value if x is truthy, else x itself
Section(x) == [heading |-> Truthy(x), text |-> ChildText(x)]

\* components.length > 0, length a number or undefined
LengthPositive(x) == Prop(x, k_length).t = "num" /\ Prop(x, k_length).a[1] > 0

ComponentFaults(c) ==
  \/ Nullish(c)
  \/ ChildFaults(Or(Prop(c, k_component_type), Dash))
  \/ ChildFaults(Or(Prop(c, k_component_name_te), Or(Prop(c, k_component_name_en), Dash)))
  \/ ChildFaults(Prop(c, k_dose_te))
  \/ ChildFaults(Prop(c, k_application_method_te))
  \/ ChildFaults(Prop(c, k_notes_te))

ComponentBlock(c) ==
  [type |-> ChildText(Or(Prop(c, k_component_type), Dash)),
   name |-> ChildText(Or(Prop(c, k_component_name_te), Or(Prop(c, k_component_name_en), Dash))),
   dose |-> Section(Prop(c, k_dose_te)),
   method |-> Section(Prop(c, k_application_method_te)),
   note |-> Section(Prop(c, k_notes_te))]

\* components && components.length > 0 && (...)
TreatmentShown(components) == Truthy(components) /\ LengthPositive(components)

\* rendering the receipt throws
RenderFaults(payload) ==
  LET problem == Destructure(payload, k_problem, JObj(<<>>))
      advisory == Destructure(payload, k_advisory, JObj(<<>>))
      components == Destructure(payload, k_components, JArr(<<>>))
      receipt_id == Prop(payload, k_receipt_id)
  IN \/ Nullish(problem)
     \/ ChildFaults(Or(Prop(problem, k_problem_name_te), Or(Prop(problem, k_problem_name_en), Advisory)))
     \/ ChildFaults(Or(Prop(problem, k_category), Dash))
     \/ ChildFaults(Or(Prop(problem, k_stage_te), Or(Prop(problem, k_stage_en), Dash)))
     \/ Nullish(advisory)
     \/ ChildFaults(Prop(advisory, k_symptoms_te))
     \/ ChildFaults(Prop(advisory, k_notes_te))
     \/ TreatmentShown(components)
          /\ \/ components.t # "arr"
             \/ \E i \in 1..Len(components.m) : ComponentFaults(components.m[i].v)
     \/ ChildFaults(receipt_id)

\* what the receipt shows when rendering does not throw
ReceiptView(payload) ==
  LET problem == Destructure(payload, k_problem, JObj(<<>>))
      advisory == Destructure(payload, k_advisory, JObj(<<>>))
      components == Destructure(payload, k_components, JArr(<<>>))
      receipt_id == Prop(payload, k_receipt_id)
  IN [title |-> ChildText(Or(Prop(problem, k_problem_name_te), Or(Prop(problem, k_problem_name_en), Advisory))),
      category |-> ChildText(Or(Prop(problem, k_category), Dash)),
      stage |-> ChildText(Or(Prop(problem, k_stage_te), Or(Prop(problem, k_stage_en), Dash))),
      symptoms |-> Section(Prop(advisory, k_symptoms_te)),
      notes |-> Section(Prop(advisory, k_notes_te)),
      treatment |-> IF TreatmentShown(components)
                      THEN [i \in 1..Len(components.m) |-> ComponentBlock(components.m[i].v)]
                      ELSE <<>>,
      receipt_id |-> ChildText(receipt_id)]

NoReceipt ==
  [title |-> <<>>, category |-> <<>>, stage |-> <<>>,
   symptoms |-> [heading |-> FALSE, text |-> <<>>], notes |-> [heading |-> FALSE, text |-> <<>>],
   treatment |-> <<>>, receipt_id |-> <<>>]

----------------------------------------------------------------------------
(* Documents and URLs of the model *)

k_symptoms_en == S(<<"s","y","m","p","t","o","m","s","_","e","n">>)
k_notes_en == S(<<"n","o","t","e","s","_","e","n">>)
k_dose_en == S(<<"d","o","s","e","_","e","n">>)
k_application_method_en ==
  S(<<"a","p","p","l","i","c","a","t","i","o","n","_","m","e","t","h","o","d","_","e","n">>)

R1 == JStr(S(<<"R","1">>))
LeafBlight == JStr(S(<<"L","e","a","f"," ","B","l","i","g","h","t">>))
Date2024 == JStr(S(<<"2","0","2","4","-","0","1","-","0","1","T","0","0",":","0","0",":","0","0","Z">>))
\* Telugu text
Te1 == JStr(<<3108, 3142>>)
Te2 == JStr(<<3093>>)
En1 == JStr(S(<<"S","p","o","t","s">>))
En2 == JStr(S(<<"2","m","l">>))
En3 == JStr(S(<<"S","p","r","a","y">>))

\* the example of section 8 of the specification
DocExample ==
  JObj(<<KV(k_receipt_id, R1), KV(k_generated_at, Date2024),
         KV(k_problem, JObj(<<KV(k_problem_name_en, LeafBlight)>>)),
         KV(k_components, JArr(<<>>))>>)

\* every field in the primary language, as Telugu text
DocTelugu ==
  JObj(<<KV(k_receipt_id, R1),
         KV(k_problem, JObj(<<KV(k_problem_name_te, Te1), KV(k_category, En3), KV(k_stage_te, Te2)>>)),
         KV(k_advisory, JObj(<<KV(k_symptoms_te, Te2), KV(k_notes_te, Te1)>>)),
         KV(k_components, JArr(<<JObj(<<KV(k_component_type, En3), KV(k_component_name_te, Te1),
                                       KV(k_dose_te, Te2), KV(k_application_method_te, Te1),
                                       KV(k_notes_te, Te2)>>)>>))>>)

\* every primary-language field populated with ASCII text
DocPrimary ==
  JObj(<<KV(k_receipt_id, R1),
         KV(k_problem, JObj(<<KV(k_problem_name_te, En1), KV(k_stage_te, En2)>>)),
         KV(k_advisory, JObj(<<KV(k_symptoms_te, En1), KV(k_notes_te, En2)>>)),
         KV(k_components, JArr(<<JObj(<<KV(k_component_name_te, En3), KV(k_dose_te, En2),
                                       KV(k_application_method_te, En3), KV(k_notes_te, En1)>>),
                                 JObj(<<>>)>>))>>)

\* only the secondary-language fields populated
DocSecondary ==
  JObj(<<KV(k_problem, JObj(<<KV(k_problem_name_en, LeafBlight), KV(k_stage_en, En2)>>)),
         KV(k_advisory, JObj(<<KV(k_symptoms_en, En1), KV(k_notes_en, En2)>>)),
         KV(k_components, JArr(<<JObj(<<KV(k_component_name_en, En3), KV(k_dose_en, En2),
                                       KV(k_application_method_en, En3), KV(k_notes_en, En1)>>)>>))>>)

DocProblemNull == JObj(<<KV(k_problem, JNull)>>)
DocComponentNull == JObj(<<KV(k_components, JArr(<<JNull>>))>>)
DocComponentsString == JObj(<<KV(k_components, En1)>>)
DocReceiptObject == JObj(<<KV(k_receipt_id, JObj(<<>>))>>)
DocShapes == JObj(<<KV(k_problem, JNum(5)), KV(k_advisory, En1), KV(k_components, JNum(7))>>)

Documents ==
  <<DocExample, DocTelugu, DocPrimary, DocSecondary, DocProblemNull, DocComponentNull,
    DocComponentsString, DocReceiptObject, DocShapes, JObj(<<>>), JNull, JNum(0), JNum(5),
    JStr(<<>>), JBool(FALSE), Te2>>

\* raw values of the data parameter that no encoder of section 6 produces
RawValues ==
  <<<<>>,                                     \* ?data=
    S(<<"%","2","5">>),                       \* "%": decodeURIComponent throws
    S(<<"A">>),                               \* one character: no Base64
    S(<<"!","!","!","!">>),                   \* outside the alphabet
    S(<<"e","w","%","3","D","%","3","D">>),   \* "{": no JSON
    S(<<"b","n","V","s","b","A">>),           \* null, unpadded
    S(<<"I","m","E","+","I","g","=","=">>),   \* standard alphabet, + not escaped
    S(<<"I","m","E","-","I","g">>),           \* "a>" URL-safe, unpadded
    S(<<"N","Q","%","2","5","3","D","%","2","5","3","D">>)>>  \* 5, percent-encoded twice

----------------------------------------------------------------------------
(* The page *)

VARIABLES
  search,        \* window.location.search: [present, raw], raw the value of data
  doc,           \* the document the URL was produced from, Undefined if from none
  dev,           \* a development build: React.StrictMode runs the mount effects twice
  payload,       \* useState(null): [val, ref], ref the identity of an object
  error,         \* useState(null): "null" or the message
  updates,       \* the state updates React has queued
  effects,       \* the effects React has yet to run after the last commit
  view,          \* what the component returned last
  receipt,       \* the receipt on screen
  containerRef,  \* containerRef.current is an element
  nextRef,       \* the objects JSON.parse has created
  runs,          \* the calls of generateAndPrint
  timers,        \* pending setTimeout callbacks
  now,           \* the time, in milliseconds
  log            \* what has happened, in order

vars == <<search, doc, dev, payload, error, updates, effects, view, receipt,
          containerRef, nextRef, runs, timers, now, log>>

SettleDelay == 300
CloseDelay == 1500
\* the originating window closed before the print window
CloseOriginDelayShort == CloseDelay - 500
CloseOriginDelay == 2000
FallbackPrintDelay == 800
PdfWidth == 80
PdfHeight == 120

NullState == [val |-> JNull, ref |-> 0]
NoError == "null"
NoDataMessage == "No data parameter found in URL."
ParseMessage == "Failed to parse data payload: "

Ev(e, r) == [ev |-> e, run |-> r]

\* Object.is on two values of the payload state
ObjectIs(p, q) ==
  IF p.val.t \in {"obj", "arr"} THEN q.val.t = p.val.t /\ q.ref = p.ref ELSE p.val = q.val

Init ==
  /\ \E i \in 0..(Len(Documents) + Len(RawValues)) :
       IF i = 0 THEN search = [present |-> FALSE, raw |-> <<>>] /\ doc = Undefined
       ELSE IF i <= Len(Documents)
         THEN search = [present |-> TRUE, raw |-> EncodeData(Documents[i])] /\ doc = Documents[i]
       ELSE search = [present |-> TRUE, raw |-> RawValues[i - Len(Documents)]] /\ doc = Undefined
  /\ dev \in BOOLEAN
  /\ payload = NullState
  /\ error = NoError
  /\ updates = <<>>
  /\ effects = <<>>
  /\ view = "none"
  /\ receipt = NoReceipt
  /\ containerRef = FALSE
  /\ nextRef = 0
  /\ runs = <<>>
  /\ timers = {}
  /\ now = 0
  /\ log = <<>>

----------------------------------------------------------------------------
(* The decode effect *)

Outcome(set, message, obj, threw) == [set |-> set, message |-> message, obj |-> obj, threw |-> threw]

\* const obj = JSON.parse(jsonStr); setPayload(obj), or the catch block
Parse(firstThrew, obj) ==
  IF obj.ok THEN Outcome("payload", NoError, obj.v, firstThrew)
  ELSE Outcome("error", ParseMessage, Undefined, firstThrew \o <<"threw:JSON.parse">>)

\* const jsonStr = decodeBase64UrlSafe(raw), first the result of its try block
Decode(first, jsonStr) ==
  IF ~jsonStr.ok THEN Outcome("error", ParseMessage, Undefined, <<"threw:first", "threw:second">>)
  ELSE Parse(IF first.ok THEN <<>> ELSE <<"threw:first">>, JSONparse(jsonStr.v))

\* what the effect does with raw = params.get("data") (present: it is not null):
\* the state update it queues and the steps that threw
DecodeRaw(present, raw) ==
  IF ~present \/ raw = <<>> THEN Outcome("error", NoDataMessage, Undefined, <<"nodata">>)
  ELSE Decode(FirstAttempt(raw), decodeBase64UrlSafe(raw))

DecodeOutcome(s) == DecodeRaw(s.present, URLSearchParamsGet(s.raw))

Queue(o) ==
  /\ updates' = Append(updates, [set |-> o.set, message |-> o.message,
                                 state |-> [val |-> o.obj, ref |-> nextRef + 1]])
  /\ nextRef' = IF o.set = "payload" THEN nextRef + 1 ELSE nextRef
  /\ log' = log \o [i \in 1..Len(o.threw) |-> Ev(o.threw[i], 0)]

DecodeEffect ==
  /\ effects # <<>> /\ Head(effects) = "decode"
  /\ Queue(DecodeOutcome(search))
  /\ effects' = Tail(effects)
  /\ UNCHANGED <<search, doc, dev, payload, error, view, receipt, containerRef, runs, timers, now>>

----------------------------------------------------------------------------
(* The export effect *)

\* the guard left out
ExportGuardMissing(p, container) == TRUE

\* if (!payload || !containerRef.current) return
ExportGuard(p, container) == Truthy(p.val) /\ container

ExportEffect ==
  /\ effects # <<>> /\ Head(effects) = "export"
  /\ effects' = Tail(effects)
  /\ IF ExportGuard(payload, containerRef)
       THEN /\ runs' = Append(runs, [pc |-> "settle", container |-> FALSE, format |-> <<>>])
            /\ timers' = timers \cup {[at |-> now + SettleDelay, act |-> "settle", run |-> Len(runs) + 1]}
            /\ log' = Append(log, Ev("start", Len(runs) + 1))
       ELSE UNCHANGED <<runs, timers, log>>
  /\ UNCHANGED <<search, doc, dev, payload, error, updates, view, receipt, containerRef, nextRef, now>>

----------------------------------------------------------------------------
(* Rendering *)

RECURSIVE Reduce(_, _, _)
\* the state after the queued updates, applied in order
Reduce(p, e, q) ==
  IF q = <<>> THEN [payload |-> p, error |-> e]
  ELSE IF Head(q).set = "payload" THEN Reduce(Head(q).state, e, Tail(q))
  ELSE Reduce(p, Head(q).message, Tail(q))

\* the updates one render takes from the queue
Batch(q) == q

\* the decode effect without its dependency array []: it runs after every commit
ScheduledNoDeps(mount, payloadChanged) ==
  IF mount THEN <<"decode", "export">> \o (IF dev THEN <<"decode", "export">> ELSE <<>>)
  ELSE <<"decode">> \o (IF payloadChanged THEN <<"export">> ELSE <<>>)

\* the effects React runs after a commit
Scheduled(mount, payloadChanged) ==
  IF mount THEN <<"decode", "export">> \o (IF dev THEN <<"decode", "export">> ELSE <<>>)
  ELSE IF payloadChanged THEN <<"export">> ELSE <<>>

\* what the component returns in state s
Returned(s) ==
  IF s.error # NoError THEN "error"
  ELSE IF ~Truthy(s.payload.val) THEN "waiting"
  ELSE IF RenderFaults(s.payload.val) THEN "crashed"
  ELSE "receipt"

\* React renders state s and commits what the component returns
Commit(s, kind) ==
  IF view # "none" /\ ObjectIs(payload, s.payload) /\ error = s.error
    THEN UNCHANGED <<payload, error, view, receipt, containerRef, effects>>
    ELSE /\ payload' = s.payload
         /\ error' = s.error
         /\ view' = kind
         /\ receipt' = IF kind = "receipt" THEN ReceiptView(s.payload.val) ELSE NoReceipt
         /\ containerRef' = (kind = "receipt")
         /\ effects' = IF kind = "crashed" THEN <<>>
                       ELSE Scheduled(view = "none", ~ObjectIs(payload, s.payload))

RenderState(s) == Commit(s, Returned(s))

RenderBatch(b) ==
  /\ updates' = SubSeq(updates, Len(b) + 1, Len(updates))
  /\ RenderState(Reduce(payload, error, b))

Render ==
  /\ effects = <<>>
  /\ view # "crashed"
  /\ view = "none" \/ updates # <<>>
  /\ RenderBatch(Batch(updates))
  /\ UNCHANGED <<search, doc, dev, nextRef, runs, timers, now, log>>

----------------------------------------------------------------------------
(* generateAndPrint *)

\* the blob URL taken before the document is marked for printing
SyncStepsSwapped == <<"toDataURL", "jsPDF", "addImage", "bloburl", "autoPrint">>

\* the synchronous steps between the rasterization and window.open, in order
SyncSteps == <<"toDataURL", "jsPDF", "addImage", "autoPrint", "bloburl">>

Events(names, r) == [i \in 1..Len(names) |-> Ev(names[i], r)]

\* catch (err) { console.error(...); alert('Print failed: ' + err.message) }
Caught(r) == <<Ev("fail", r), Ev("alert", r)>>
\* catch (e) { console.warn(...) }
Warned(r) == <<Ev("fail", r), Ev("warn", r)>>
\* an exception no handler catches
Uncaught(r) == <<Ev("fail", r), Ev("uncaught", r)>>

Due(t) == t \in timers /\ \A u \in timers : t.at <= u.at

At(r, pc) == r \in 1..Len(runs) /\ runs[r].pc = pc
Goto(r, pc) == runs' = [runs EXCEPT ![r].pc = pc]

\* run r goes to pc after the synchronous steps done:
\* new jsPDF({orientation: "portrait", unit: "mm", format: [80, 120]}) is one of them
Export(r, done, pc) ==
  runs' = [runs EXCEPT ![r].pc = pc,
                       ![r].format = IF \E i \in 1..Len(done) : done[i] = "jsPDF"
                                       THEN <<PdfWidth, PdfHeight>> ELSE <<>>]

\* the 300 ms are over: html2canvas(containerRef.current, ...) is called
Settle(t) ==
  /\ Due(t) /\ t.act = "settle"
  /\ timers' = timers \ {t}
  /\ now' = t.at
  /\ runs' = [runs EXCEPT ![t.run] = [pc |-> "html2canvas", container |-> containerRef, format |-> <<>>]]
  /\ log' = log \o Events(<<"settled", "html2canvas">>, t.run)
  /\ UNCHANGED <<search, doc, dev, payload, error, updates, effects, view, receipt, containerRef, nextRef>>

RasterizeRejects(r) ==
  /\ At(r, "html2canvas")
  /\ Goto(r, "done")
  /\ log' = log \o Caught(r)
  /\ UNCHANGED <<search, doc, dev, payload, error, updates, effects, view, receipt, containerRef, nextRef, timers, now>>

\* html2canvas resolves and step n of the synchronous steps throws
ExportThrows(r, n) ==
  /\ At(r, "html2canvas")
  /\ n \in 1..Len(SyncSteps)
  /\ Export(r, SubSeq(SyncSteps, 1, n - 1), "done")
  /\ log' = log \o <<Ev("rasterized", r)>> \o Events(SubSeq(SyncSteps, 1, n - 1), r) \o Caught(r)
  /\ UNCHANGED <<search, doc, dev, payload, error, updates, effects, view, receipt, containerRef, nextRef, timers, now>>

\* window.open(blobUrl, "_blank") returns a window: w.onload is set
OpenPrimary(r) ==
  /\ At(r, "html2canvas")
  /\ Export(r, SyncSteps, "load")
  /\ log' = log \o <<Ev("rasterized", r)>> \o Events(SyncSteps, r) \o <<Ev("open:w", r)>>
  /\ UNCHANGED <<search, doc, dev, payload, error, updates, effects, view, receipt, containerRef, nextRef, timers, now>>

\* window.open(blobUrl, "_blank") returns null; window.open("", "_blank") may too
OpenBlocked(r, fallback) ==
  /\ At(r, "html2canvas")
  /\ fallback \in BOOLEAN
  /\ Export(r, SyncSteps, IF fallback THEN "blob" ELSE "done")
  /\ log' = log \o <<Ev("rasterized", r)>> \o Events(SyncSteps, r) \o <<Ev("open:blocked", r)>>
              \o (IF fallback THEN <<Ev("open:fallback", r)>>
                  ELSE <<Ev("open:fallbackBlocked", r), Ev("alert", r)>>)
  /\ UNCHANGED <<search, doc, dev, payload, error, updates, effects, view, receipt, containerRef, nextRef, timers, now>>

\* w.onload: focus, print, and the two close timers
Load(r) ==
  /\ At(r, "load")
  /\ Goto(r, "done")
  /\ log' = log \o Events(<<"focus:w", "print:w">>, r)
  /\ timers' = timers \cup {[at |-> now + CloseDelay, act |-> "close:w", run |-> r],
                            [at |-> now + CloseOriginDelay, act |-> "close:window", run |-> r]}
  /\ UNCHANGED <<search, doc, dev, payload, error, updates, effects, view, receipt, containerRef, nextRef, now>>

\* w.onload: w.focus() (focused = FALSE) or w.print() throws
LoadThrows(r, focused) ==
  /\ At(r, "load")
  /\ focused \in BOOLEAN
  /\ Goto(r, "done")
  /\ log' = log \o (IF focused THEN <<Ev("focus:w", r)>> ELSE <<>>) \o Warned(r)
  /\ UNCHANGED <<search, doc, dev, payload, error, updates, effects, view, receipt, containerRef, nextRef, timers, now>>

\* the blob arrives: reader.onload is set, reader.readAsDataURL(blob) is called
BlobResolves(r) ==
  /\ At(r, "blob")
  /\ Goto(r, "reading")
  /\ log' = log \o Events(<<"blob", "readAsDataURL">>, r)
  /\ UNCHANGED <<search, doc, dev, payload, error, updates, effects, view, receipt, containerRef, nextRef, timers, now>>

\* pdf.output('blob', ...) throws (blob = FALSE) or reader.readAsDataURL(blob) does
BlobThrows(r, blob) ==
  /\ At(r, "blob")
  /\ blob \in BOOLEAN
  /\ Goto(r, "done")
  /\ log' = log \o (IF blob THEN <<Ev("blob", r)>> ELSE <<>>) \o Caught(r)
  /\ UNCHANGED <<search, doc, dev, payload, error, updates, effects, view, receipt, containerRef, nextRef, timers, now>>

\* reader.onload: the iframe is written, printing is set for 800 ms later
ReaderLoad(r) ==
  /\ At(r, "reading")
  /\ Goto(r, "wait")
  /\ log' = log \o Events(<<"iframe">>, r)
  /\ timers' = timers \cup {[at |-> now + FallbackPrintDelay, act |-> "print:fallback", run |-> r]}
  /\ UNCHANGED <<search, doc, dev, payload, error, updates, effects, view, receipt, containerRef, nextRef, now>>

\* reader.onload: fallback.document.write throws, outside every try
ReaderLoadThrows(r) ==
  /\ At(r, "reading")
  /\ Goto(r, "done")
  /\ log' = log \o Uncaught(r)
  /\ UNCHANGED <<search, doc, dev, payload, error, updates, effects, view, receipt, containerRef, nextRef, timers, now>>

\* the 800 ms are over: fallback.focus(), fallback.print(), and the close timer
FallbackPrint(t) ==
  /\ Due(t) /\ t.act = "print:fallback"
  /\ now' = t.at
  /\ Goto(t.run, "done")
  /\ log' = log \o Events(<<"focus:fallback", "print:fallback">>, t.run)
  /\ timers' = (timers \ {t}) \cup {[at |-> t.at + CloseDelay, act |-> "close:fallback", run |-> t.run]}
  /\ UNCHANGED <<search, doc, dev, payload, error, updates, effects, view, receipt, containerRef, nextRef>>

FallbackPrintThrows(t, focused) ==
  /\ Due(t) /\ t.act = "print:fallback"
  /\ focused \in BOOLEAN
  /\ now' = t.at
  /\ Goto(t.run, "done")
  /\ log' = log \o (IF focused THEN <<Ev("focus:fallback", t.run)>> ELSE <<>>) \o Warned(t.run)
  /\ timers' = timers \ {t}
  /\ UNCHANGED <<search, doc, dev, payload, error, updates, effects, view, receipt, containerRef, nextRef>>

\* w.close(), window.close() or fallback.close()
Close(t) ==
  /\ Due(t) /\ t.act \in {"close:w", "close:window", "close:fallback"}
  /\ now' = t.at
  /\ timers' = timers \ {t}
  /\ log' = Append(log, Ev(t.act, t.run))
  /\ UNCHANGED <<search, doc, dev, payload, error, updates, effects, view, receipt, containerRef, nextRef, runs>>

Next ==
  \/ Render
  \/ DecodeEffect
  \/ ExportEffect
  \/ \E t \in timers : Settle(t)
  \/ \E r \in 1..Len(runs) : RasterizeRejects(r)
  \/ \E r \in 1..Len(runs), n \in 1..Len(SyncSteps) : ExportThrows(r, n)
  \/ \E r \in 1..Len(runs) : OpenPrimary(r)
  \/ \E r \in 1..Len(runs), fallback \in BOOLEAN : OpenBlocked(r, fallback)
  \/ \E r \in 1..Len(runs) : Load(r)
  \/ \E r \in 1..Len(runs), focused \in BOOLEAN : LoadThrows(r, focused)
  \/ \E r \in 1..Len(runs) : BlobResolves(r)
  \/ \E r \in 1..Len(runs), blob \in BOOLEAN : BlobThrows(r, blob)
  \/ \E r \in 1..Len(runs) : ReaderLoad(r)
  \/ \E r \in 1..Len(runs) : ReaderLoadThrows(r)
  \/ \E t \in timers : FallbackPrint(t)
  \/ \E t \in timers, focused \in BOOLEAN : FallbackPrintThrows(t, focused)
  \/ \E t \in timers : Close(t)

Spec == Init /\ [][Next]_vars

----------------------------------------------------------------------------
(* What the log says *)

Has(e) == \E i \in 1..Len(log) : log[i].ev = e
HasIn(es) == \E i \in 1..Len(log) : log[i].ev \in es

\* the events of run r among the events es, in order
RunEvents(r, es) ==
  LET mine(e) == e.run = r /\ e.ev \in es
      sel == SelectSeq(log, mine)
  IN [i \in 1..Len(sel) |-> sel[i].ev]

IsPrefix(s, q) == Len(s) <= Len(q) /\ s = SubSeq(q, 1, Len(s))

\* nothing is pending: no effect, no update, no timer, no run under way
Idle ==
  /\ view # "none"
  /\ effects = <<>>
  /\ updates = <<>>
  /\ timers = {}
  /\ \A r \in 1..Len(runs) : runs[r].pc = "done"

----------------------------------------------------------------------------
(* Claims *)

NoData == ~search.present \/ search.raw = <<>>
DecodeThrew == HasIn({"threw:first", "threw:second", "threw:JSON.parse"})
ExportStepNames ==
  {"start", "settled", "html2canvas", "rasterized", "toDataURL", "jsPDF", "addImage",
   "autoPrint", "bloburl", "open:w", "open:blocked", "open:fallback", "print:w", "print:fallback"}

\* C1: when the data parameter is absent or empty, or a decode step throws
\* (the first attempt, the raw second attempt, JSON.parse), payload stays null,
\* no export step is ever started, no view but the waiting view and the error
\* view is shown, and the page ends in the error view with error set.
C1_DecodeFailureEndsInError ==
  (NoData \/ DecodeThrew) =>
    /\ payload.val = JNull
    /\ runs = <<>>
    /\ ~HasIn(ExportStepNames)
    /\ view \in {"none", "waiting", "error"}
    /\ Idle => view = "error" /\ error # NoError

\* a text that is Base64 but no JSON has reached JSON.parse, in a page at rest
C1_Witness == Has("threw:JSON.parse") /\ Idle /\ view = "error"

\* C9: once set the payload never changes, error and payload are never both
\* set, and generateAndPrint is started at most once, also when React.StrictMode
\* runs the mount effects twice.
C9_PayloadSetOnce ==
  [][/\ payload.val # JNull => payload' = payload
     /\ ~(error' # NoError /\ payload'.val # JNull)
     /\ Len(runs') <= 1]_vars

\* a development build has parsed the document twice and started one export
C9_Witness == dev /\ nextRef = 2 /\ payload.val # JNull /\ Len(runs) = 1

ExportOrder ==
  <<"start", "settled", "html2canvas", "rasterized", "toDataURL", "jsPDF", "addImage",
    "autoPrint", "bloburl", "open">>

Opened(e) == IF e \in {"open:w", "open:blocked"} THEN "open" ELSE e

\* the export steps of run r, in the order they happened
ExportSteps(r) ==
  LET s == RunEvents(r, {"start", "settled", "html2canvas", "rasterized", "toDataURL", "jsPDF",
                         "addImage", "autoPrint", "bloburl", "open:w", "open:blocked"})
  IN [i \in 1..Len(s) |-> Opened(s[i])]

\* C8: the export steps of a run happen in one order: start with the payload set
\* and the container mounted, settle delay, rasterization of the mounted
\* container, data URL, the 80 x 120 document, the image, auto-print, the blob
\* URL, window.open; no step happens before the one before it.
C8_ExportOrder ==
  \A r \in 1..Len(runs) :
    /\ IsPrefix(ExportSteps(r), ExportOrder)
    /\ Truthy(payload.val) /\ view = "receipt" /\ containerRef
    /\ runs[r].pc # "settle" => runs[r].container
    /\ (\E i \in 1..Len(log) : log[i] = Ev("jsPDF", r)) => runs[r].format = <<80, 120>>

\* a run has gone through every step up to window.open
C8_Witness == \E r \in 1..Len(runs) : ExportSteps(r) = ExportOrder

\* the close calls of run r, in order
Closes(r) == RunEvents(r, {"close:w", "close:window", "close:fallback"})
\* the print and close calls of run r, in order
PrintAndCloses(r) ==
  RunEvents(r, {"print:w", "print:fallback", "close:w", "close:window", "close:fallback"})

\* C6 as stated: on every path on which print is triggered, print comes before
\* any close, and afterwards the hosting context is closed and then the
\* originating one.
C6_BothClosedOnEveryPath ==
  \A r \in 1..Len(runs) :
    /\ Closes(r) # <<>> => Head(PrintAndCloses(r)) \in {"print:w", "print:fallback"}
    /\ Idle /\ PrintAndCloses(r) # <<>> =>
         Closes(r) \in {<<"close:w", "close:window">>, <<"close:fallback", "close:window">>}

\* C6 amended: print comes before any close; on the primary path the new
\* window is closed and then the originating one; on the fallback path the
\* fallback window alone is closed, the originating window stays open.
C6_ClosesAfterPrint ==
  \A r \in 1..Len(runs) :
    /\ IsPrefix(PrintAndCloses(r), <<"print:w", "close:w", "close:window">>)
         \/ IsPrefix(PrintAndCloses(r), <<"print:fallback", "close:fallback">>)
    /\ Idle /\ PrintAndCloses(r) # <<>> =>
         PrintAndCloses(r) \in {<<"print:w", "close:w", "close:window">>,
                                <<"print:fallback", "close:fallback">>}

\* both paths have printed and closed: this is the fallback one, at rest
C6_Witness == Idle /\ \E r \in 1..Len(runs) : Closes(r) = <<"close:fallback">>

\* C2 as stated: when window.open(blobUrl) returns null the run never ends
\* silently: once the page is at rest, print has been triggered in the
\* fallback window or an alert has been shown.
C2_BlockedNeverSilent ==
  \A r \in 1..Len(runs) :
    Idle /\ RunEvents(r, {"open:blocked"}) # <<>> =>
      RunEvents(r, {"print:fallback", "alert"}) # <<>>

\* C3 as stated: every failure after the export has started is followed by an
\* alert, and no export step follows a failure.
C3_EveryFailureAlerts ==
  \A i \in 1..Len(log) :
    log[i].ev = "fail" =>
      /\ i < Len(log) /\ log[i+1] = Ev("alert", log[i].run)
      /\ \A j \in (i + 1)..Len(log) : log[j].ev \notin ExportStepNames

\* C4 as stated: for a document encoded as UTF-8 JSON, URL-safe Base64 and
\* percent-encoding, the decode effect sets the payload to a value equal to
\* the document.
C4_RoundTrip ==
  doc # Undefined =>
    \A i \in 1..Len(updates) : updates[i].set = "payload" /\ updates[i].state.val = doc

\* only the secondary-language member en of x is populated
OnlySecondary(x, te, en) == ~Truthy(Prop(x, te)) /\ Prop(x, en).t = "str" /\ Truthy(Prop(x, en))
\* then the receipt shows it
ShowsSecondary(x, te, en, shown) == OnlySecondary(x, te, en) => shown = Prop(x, en).a

\* C5 as stated: every bilingual field of which only the secondary-language
\* value is populated is shown with that value.
C5_SecondaryShown ==
  view = "receipt" =>
    LET problem == Prop(payload.val, k_problem)
        advisory == Prop(payload.val, k_advisory)
        components == Prop(payload.val, k_components)
    IN /\ ShowsSecondary(problem, k_problem_name_te, k_problem_name_en, receipt.title)
       /\ ShowsSecondary(problem, k_stage_te, k_stage_en, receipt.stage)
       /\ ShowsSecondary(advisory, k_symptoms_te, k_symptoms_en, receipt.symptoms.text)
       /\ ShowsSecondary(advisory, k_notes_te, k_notes_en, receipt.notes.text)
       /\ \A i \in 1..Len(receipt.treatment) :
            LET c == components.m[i].v
                block == receipt.treatment[i]
            IN /\ ShowsSecondary(c, k_component_name_te, k_component_name_en, block.name)
               /\ ShowsSecondary(c, k_dose_te, k_dose_en, block.dose.text)
               /\ ShowsSecondary(c, k_application_method_te, k_application_method_en, block.method.text)
               /\ ShowsSecondary(c, k_notes_te, k_notes_en, block.note.text)

\* C7 as stated: whatever a parsed document holds, no error is set and
\* rendering does not fault.
C7_NoFault == payload.val # JNull => view # "crashed" /\ error = NoError

\* C10 as stated: a page at rest has left the waiting view, whatever the data
\* parameter held, and every export that was started has triggered print or
\* shown an alert.
C10_LeavesWaiting ==
  Idle =>
    /\ view # "waiting"
    /\ \A r \in 1..Len(runs) : RunEvents(r, {"print:w", "print:fallback", "alert"}) # <<>>
====
